---- MODULE Spec2Model ----
(***************************************************************************)
(* A model of digit_interface: DigitHandler (the udev lookup of attached   *)
(* DIGIT sensors) and Digit (one sensor: its cv2.VideoCapture session and  *)
(* the mirrored stream configuration).                                     *)
(*                                                                         *)
(* The udev registry and the capture sessions are the environment: the     *)
(* registry is chosen in Init, a session opens or fails to open by a       *)
(* nondeterministic choice, and a frame read on an open session succeeds   *)
(* or fails by a nondeterministic choice. The pixels of a frame, and with  *)
(* them save_frame, get_diff and show_view, are left out: get_frame is     *)
(* modelled by whether it returns or raises.                               *)
(***************************************************************************)
EXTENDS Integers, Sequences, FiniteSets, TLC

(* ------------------------------ bounds -------------------------------- *)

\* Devices in the udev registry.
MaxDevices == 2
\* cv2.VideoCapture objects one Digit creates in a run.
MaxSessions == 2
\* release() calls one cv2.VideoCapture object receives in a run.
MaxReleases == 2
\* How far the intensity inputs reach beyond each end of a range.
Over == 1

(* ------------------------ constants of the code ----------------------- *)

LIGHTING_MIN == 0
LIGHTING_MAX == 15
LIGHTING_SCALER == 17
\* digit.py:111, `self.revision < 200`
LEGACY_REVISION == 200
\* digit.py:77, `self.set_intensity(15)`
DEFAULT_INTENSITY == 15

\* Python's None, for the str-typed fields.
None == "<None>"
\* self.__dev is None: sessions are numbered from 1.
NoDev == 0
\* self.revision = "" (digit.py:50): the str that an unpopulated Digit holds.
EmptyRevision == -1
\* self.resolution = {} (digit.py:52): the dict without keys.
EmptyResolution == [width |-> 0, height |-> 0]
\* A call that returns None.
NoRet == -1

\* DigitDefaults.STREAMS
STREAMS ==
    [VGA  |-> [resolution |-> [width |-> 640, height |-> 480],
               fps |-> [fps30 |-> 30, fps15 |-> 15]],
     QVGA |-> [resolution |-> [width |-> 320, height |-> 240],
               fps |-> [fps60 |-> 60, fps30 |-> 30]]]

(* --------------------------- the environment -------------------------- *)

Serials == {"D12345", "D67890"}
Paths == {"/dev/video0", "/dev/video2", "/dev/video4"}
Models == {"DIGIT", "Webcam"}
\* ID_REVISION is a string of digits; a string is the sequence of its characters.
Revisions == {<<"0", "1", "9", "9">>, <<"0", "2", "0", "0">>}
\* What a caller passes as serial: an attached one, an unknown one, or nothing.
Queries == Serials \cup {"UNKNOWN", None}

DigitVal(c) ==
    CASE c = "0" -> 0 [] c = "1" -> 1 [] c = "2" -> 2 [] c = "3" -> 3
      [] c = "4" -> 4 [] c = "5" -> 5 [] c = "6" -> 6 [] c = "7" -> 7
      [] c = "8" -> 8 [] c = "9" -> 9

\* int(s) of a string of decimal digits.
RECURSIVE int(_)
int(s) ==
    IF Len(s) = 0 THEN 0
    ELSE 10 * int(SubSeq(s, 1, Len(s) - 1)) + DigitVal(s[Len(s)])

\* int(x / d) of Python: true division, then truncation toward zero.
TruncDiv(x, d) == IF x >= 0 THEN x \div d ELSE -((-x) \div d)

UdevDevice ==
    [DEVNAME : Paths, ID_VENDOR : {"Facebook"}, ID_MODEL : Models,
     ID_REVISION : Revisions, ID_SERIAL_SHORT : Serials]

\* The video4linux devices attached: device nodes are distinct, and so are the
\* serials of the DIGITs among them.
Registries ==
    {r \in UNION {[1..n -> UdevDevice] : n \in 0..MaxDevices} :
        \A i, j \in DOMAIN r :
            i # j => /\ r[i].DEVNAME # r[j].DEVNAME
                     /\ (r[i].ID_MODEL = "DIGIT" /\ r[j].ID_MODEL = "DIGIT"
                            => r[i].ID_SERIAL_SHORT # r[j].ID_SERIAL_SHORT)}

VARIABLES
    udev,        \* the attached video4linux devices, in enumeration order
    constructed, \* "no": Digit(...) not yet called; "yes"; "raised"
    digit,       \* the fields of the Digit object (self)
    sessions,    \* every cv2.VideoCapture the Digit created, in creation order
    last         \* the last call: its name, arguments, exception and return value

vars == <<udev, constructed, digit, sessions, last>>

(* ----------------------------- DigitHandler --------------------------- *)

_parse(digit_dev) ==
    [dev_name     |-> digit_dev.DEVNAME,
     manufacturer |-> digit_dev.ID_VENDOR,
     model        |-> digit_dev.ID_MODEL,
     revision     |-> digit_dev.ID_REVISION,
     serial       |-> digit_dev.ID_SERIAL_SHORT]

RECURSIVE Filter(_, _)
Filter(seq, model) ==
    IF seq = <<>> THEN <<>>
    ELSE (IF Head(seq).ID_MODEL = model THEN <<Head(seq)>> ELSE <<>>)
            \o Filter(Tail(seq), model)

list_digits(reg) ==
    LET digits == Filter(reg, "DIGIT")
    IN  [i \in 1..Len(digits) |-> _parse(digits[i])]

NotFound == [dev_name |-> None, manufacturer |-> None, model |-> None,
             revision |-> <<>>, serial |-> None]

RECURSIVE Scan(_, _)
Scan(digits, serial) ==
    IF digits = <<>> THEN NotFound
    ELSE IF Head(digits).serial = serial THEN Head(digits)
    ELSE Scan(Tail(digits), serial)

\* find_digit returning the first DIGIT listed, whatever its serial.
find_digit_first(reg, serial) ==
    IF list_digits(reg) = <<>> THEN NotFound ELSE Head(list_digits(reg))

find_digit(reg, serial) == Scan(list_digits(reg), serial)

(* -------------------------------- Digit ------------------------------- *)

\* x << n and a | b on non-negative integers.
RECURSIVE Shl(_, _)
Shl(x, n) == IF n = 0 THEN x ELSE Shl(2 * x, n - 1)

RECURSIVE BitOr(_, _)
BitOr(a, b) ==
    IF a = 0 THEN b
    ELSE IF b = 0 THEN a
    ELSE (IF a % 2 = 1 \/ b % 2 = 1 THEN 1 ELSE 0) + 2 * BitOr(a \div 2, b \div 2)

\* A call in progress: the object, the capture sessions, the exception raised
\* ("ok" while none is) and the value returned.
Call(d, s) == [digit |-> d, sessions |-> s, exc |-> "ok", ret |-> NoRet]

Raise(st, exc) == [st EXCEPT !.exc = exc, !.ret = NoRet]

\* cv2.VideoCapture(path): a new capture object, opened or not.
VideoCapture(path, opened) ==
    [path |-> path, status |-> IF opened THEN "open" ELSE "failed",
     releases |-> 0, width |-> 0, height |-> 0, fps |-> 0, zoom |-> 0]

\* self.__dev.set(prop, value): None has no attribute set; a capture that is not
\* open returns False and keeps nothing.
dev_set(st, prop, value) ==
    IF st.digit.dev = NoDev THEN Raise(st, "AttributeError")
    ELSE IF st.sessions[st.digit.dev].status = "open"
         THEN [st EXCEPT !.sessions[st.digit.dev][prop] = value]
         ELSE st

\* Digit.__init__ up to populate.
NewDigit(serial, name) ==
    [serial |-> serial, name |-> name, dev |-> NoDev,
     dev_name |-> "", manufacturer |-> "", model |-> "",
     revision |-> EmptyRevision, resolution |-> EmptyResolution,
     fps |-> 0, intensity |-> 0]

populate(d, reg, serial) ==
    LET found == find_digit(reg, serial)
    IN  IF found = NotFound THEN Raise(Call(d, <<>>), "Exception")
        ELSE Call([d EXCEPT !.dev_name = found.dev_name,
                            !.manufacturer = found.manufacturer,
                            !.model = found.model,
                            !.revision = int(found.revision),
                            !.serial = found.serial], <<>>)

__init__(reg, serial, name) ==
    IF serial # None THEN populate(NewDigit(serial, name), reg, serial)
    ELSE Call(NewDigit(serial, name), <<>>)

set_resolution(st, resolution) ==
    LET s1 == [st EXCEPT !.digit.resolution = resolution.resolution]
        s2 == dev_set(s1, "width", s1.digit.resolution.width)
    IN  IF s2.exc # "ok" THEN s2
        ELSE dev_set(s2, "height", s2.digit.resolution.height)

set_fps(st, fps) ==
    LET s1 == [st EXCEPT !.digit.fps = fps]
    IN  dev_set(s1, "fps", s1.digit.fps)

\* The red channel shifted by 4 instead of 8.
Pack_red4(r, g, b) == BitOr(BitOr(Shl(r, 4), Shl(g, 4)), b)

\* (intensity_r << 8) | (intensity_g << 4) | intensity_b
Pack(r, g, b) == BitOr(BitOr(Shl(r, 8), Shl(g, 4)), b)

\* The check leaving the blue channel out.
Permitted_rg(r, g, b) == \A x \in {r, g} : x \in 0..15

\* all([x in range(0, 16) for x in (r, g, b)])
Permitted(r, g, b) == \A x \in {r, g, b} : x \in 0..15

set_intensity_rgb(st, r, g, b) ==
    IF ~Permitted(r, g, b) THEN Raise(st, "ValueError")
    ELSE LET s1 == [st EXCEPT !.digit.intensity = Pack(r, g, b)]
             s2 == dev_set(s1, "zoom", s1.digit.intensity)
         IN  IF s2.exc # "ok" THEN s2
             ELSE [s2 EXCEPT !.ret = s2.digit.intensity]

\* Floor division (intensity // 17) instead of int(intensity / 17).
Scaled_floor(revision, intensity) ==
    IF revision < LEGACY_REVISION THEN intensity \div LIGHTING_SCALER
    ELSE intensity

\* The value set_intensity passes on for each channel.
Scaled(revision, intensity) ==
    IF revision < LEGACY_REVISION THEN TruncDiv(intensity, LIGHTING_SCALER)
    ELSE intensity

set_intensity(st, intensity) ==
    IF st.digit.revision = EmptyRevision THEN Raise(st, "TypeError")
    ELSE LET i  == Scaled(st.digit.revision, intensity)
             s1 == set_intensity_rgb(st, i, i, i)
         IN  IF s1.exc # "ok" THEN s1
             ELSE [s1 EXCEPT !.digit.intensity = s1.ret]

\* The properties of a capture nobody can read any more: one that is closed, or
\* one the Digit no longer refers to.
Forgotten(cap) == [cap EXCEPT !.width = 0, !.height = 0, !.fps = 0, !.zoom = 0]

\* The object self.__dev referred to loses its only reference (the attribute is
\* private to Digit): the interpreter frees it at once, and the destructor of
\* cv2.VideoCapture closes a capture that is open. connect() itself calls no
\* release(), so releases stays as it is.
Dropped(st) ==
    IF st.digit.dev = NoDev THEN st.sessions
    ELSE [st.sessions EXCEPT ![st.digit.dev] =
            Forgotten([@ EXCEPT !.status = IF @ = "open" THEN "released" ELSE @])]

connect(st, opened) ==
    LET s1 == [st EXCEPT
                 !.sessions = Append(Dropped(st),
                                     VideoCapture(st.digit.dev_name, opened)),
                 !.digit.dev = Len(st.sessions) + 1]
        s2 == set_resolution(s1, STREAMS.QVGA)
        s3 == IF s2.exc # "ok" THEN s2 ELSE set_fps(s2, STREAMS.QVGA.fps.fps60)
        s4 == IF s3.exc # "ok" THEN s3 ELSE set_intensity(s3, DEFAULT_INTENSITY)
    IN  IF s1.sessions[s1.digit.dev].status # "open" THEN Raise(s1, "Exception")
        ELSE [s4 EXCEPT !.ret = NoRet]

\* ret, frame = self.__dev.read(): a capture that is not open reads nothing.
get_frame(st, read_ok) ==
    IF st.digit.dev = NoDev THEN Raise(st, "AttributeError")
    ELSE IF ~(st.sessions[st.digit.dev].status = "open" /\ read_ok)
         THEN Raise(st, "Exception")
         ELSE st

\* disconnect() that calls release() on nothing: the capture stays open.
disconnect_keeps_open(st) ==
    IF st.digit.dev = NoDev THEN Raise(st, "AttributeError")
    ELSE [st EXCEPT !.sessions[st.digit.dev].releases = @ + 1]

disconnect(st) ==
    IF st.digit.dev = NoDev THEN Raise(st, "AttributeError")
    ELSE [st EXCEPT
            !.sessions[st.digit.dev] =
                Forgotten([@ EXCEPT
                    !.status = IF @ = "open" THEN "released" ELSE @,
                    !.releases = @ + 1])]

\* What info() reports: the fields of its string.
info(st) ==
    LET has_dev == st.digit.dev # NoDev
        is_connected == has_dev /\ st.sessions[st.digit.dev].status = "open"
    IN  [name |-> st.digit.name, dev_name |-> st.digit.dev_name,
         model |-> st.digit.model, revision |-> st.digit.revision,
         connected |-> is_connected,
         resolution |-> IF is_connected THEN st.digit.resolution ELSE EmptyResolution,
         fps |-> IF is_connected THEN st.digit.fps ELSE 0,
         intensity |-> IF is_connected THEN st.digit.intensity ELSE 0]

(* ------------------------------- inputs ------------------------------- *)

\* The registries of the main specification: nothing attached, or the one
\* DIGIT of the examples, at any path and of any revision.
Attached ==
    {r \in Registries :
        /\ Len(r) <= 1
        /\ \A i \in DOMAIN r :
              r[i].ID_MODEL = "DIGIT" /\ r[i].ID_SERIAL_SHORT = "D12345"}

Names == {"Left Gripper"}

\* The main specification passes the values of the examples and the first
\* values beyond both ends of 0..15.
Levels ==
    {LIGHTING_MIN - Over, LIGHTING_MIN, LIGHTING_MAX, LIGHTING_MAX + Over, 255}
Triples == {<<LIGHTING_MAX, 0, 0>>, <<LIGHTING_MAX + Over, 0, 0>>}

\* The illumination specification passes every level from below the least
\* level a legacy revision scales into 0..15 to above the greatest, and every
\* channel value from below 0 to above 15.
AllLevels ==
    (-(LIGHTING_SCALER + Over))..(LIGHTING_SCALER * (LIGHTING_MAX + 1) + Over)
AllChannels == (LIGHTING_MIN - Over)..(LIGHTING_MAX + Over)

\* Both presets, and the two frame rates of the preset connect() selects.
Presets == {STREAMS.VGA, STREAMS.QVGA}
FpsChoices == {STREAMS.QVGA.fps.fps60, STREAMS.QVGA.fps.fps30}

(* ------------------------------- actions ------------------------------ *)

Now == Call(digit, sessions)

Returned(op, args, st) ==
    /\ digit' = st.digit
    /\ sessions' = st.sessions
    /\ last' = [op |-> op, args |-> args, exc |-> st.exc, ret |-> st.ret]

Construct ==
    /\ constructed = "no"
    /\ \E serial \in Queries, name \in Names :
          LET st == __init__(udev, serial, name)
          IN  /\ constructed' = IF st.exc = "ok" THEN "yes" ELSE "raised"
              /\ Returned("__init__", <<>>, st)
    /\ UNCHANGED udev

Connect ==
    /\ constructed = "yes"
    /\ Len(sessions) < MaxSessions
    /\ \E opened \in (IF digit.dev_name = "" THEN {FALSE} ELSE BOOLEAN) :
          Returned("connect", <<>>, connect(Now, opened))
    /\ UNCHANGED <<udev, constructed>>

SetResolution ==
    /\ constructed = "yes"
    /\ \E preset \in Presets :
          Returned("set_resolution", <<>>, set_resolution(Now, preset))
    /\ UNCHANGED <<udev, constructed>>

SetFps ==
    /\ constructed = "yes"
    /\ \E fps \in FpsChoices : Returned("set_fps", <<>>, set_fps(Now, fps))
    /\ UNCHANGED <<udev, constructed>>

DoSetIntensity(level) ==
    /\ constructed = "yes"
    /\ Returned("set_intensity", <<level>>, set_intensity(Now, level))
    /\ UNCHANGED <<udev, constructed>>

SetIntensity == \E level \in Levels : DoSetIntensity(level)

DoSetIntensityRgb(r, g, b) ==
    /\ constructed = "yes"
    /\ Returned("set_intensity_rgb", <<r, g, b>>, set_intensity_rgb(Now, r, g, b))
    /\ UNCHANGED <<udev, constructed>>

SetIntensityRgb == \E rgb \in Triples : DoSetIntensityRgb(rgb[1], rgb[2], rgb[3])

GetFrame ==
    /\ constructed = "yes"
    /\ \E read_ok \in BOOLEAN : Returned("get_frame", <<>>, get_frame(Now, read_ok))
    /\ UNCHANGED <<udev, constructed>>

Disconnect ==
    /\ constructed = "yes"
    /\ digit.dev # NoDev => sessions[digit.dev].releases < MaxReleases
    /\ Returned("disconnect", <<>>, disconnect(Now))
    /\ UNCHANGED <<udev, constructed>>

NoCall == [op |-> "none", args |-> <<>>, exc |-> "ok", ret |-> NoRet]

\* Before Digit(...) is called there is no object: digit holds a placeholder.
Init ==
    /\ udev \in Attached
    /\ constructed = "no"
    /\ digit = NewDigit(None, None)
    /\ sessions = <<>>
    /\ last = NoCall

Next ==
    \/ Construct
    \/ Connect
    \/ SetResolution
    \/ SetFps
    \/ SetIntensity
    \/ SetIntensityRgb
    \/ GetFrame
    \/ Disconnect

Spec == Init /\ [][Next]_vars

\* The lookup alone, over every registry.
InitDir ==
    /\ udev \in Registries
    /\ constructed = "no"
    /\ digit = NewDigit(None, None)
    /\ sessions = <<>>
    /\ last = NoCall

NextDir == Construct

SpecDir == InitDir /\ [][NextDir]_vars

\* The two illumination setters alone, called once on a Digit that has just
\* connected, over every level and every channel value.
InitLight ==
    /\ udev \in Attached
    /\ constructed = "yes"
    /\ \E serial \in Serials, name \in Names :
          LET made == __init__(udev, serial, name)
              st   == connect(made, TRUE)
          IN  /\ made.exc = "ok"
              /\ digit = st.digit
              /\ sessions = st.sessions
              /\ last = [op |-> "connect", args |-> <<>>, exc |-> st.exc, ret |-> st.ret]

SetIntensityAll == \E level \in AllLevels : DoSetIntensity(level)

SetIntensityRgbAll == \E r, g, b \in AllChannels : DoSetIntensityRgb(r, g, b)

\* One call in each run: what a setter does depends on the Digit it is called
\* on only through its revision and its session.
NextLight ==
    /\ last.op = "connect"
    /\ \/ SetIntensityAll
       \/ SetIntensityRgbAll

SpecLight == InitLight /\ [][NextLight]_vars

(* ------------------------------- claims ------------------------------- *)

\* The Digit holds an open capture session.
Connected == digit.dev # NoDev /\ sessions[digit.dev].status = "open"

\* The three channels of a composite value: red = bits 8..11, green = bits 4..7,
\* blue = bits 0..3.
Red(v) == (v \div 256) % 16
Green(v) == (v \div 16) % 16
Blue(v) == v % 16

\* The integer part of level / 17: the q of the sign of level whose magnitude
\* has 17 * |q| <= |level| < 17 * (|q| + 1).
IntegerPart17(level) ==
    LET m == IF level >= 0 THEN level ELSE -level
        q == CHOOSE k \in 0..m : 17 * k <= m /\ m < 17 * (k + 1)
    IN  IF level >= 0 THEN q ELSE -q

\* C1: on a connected Digit, set_intensity(level) with level below 0 or above 15
\* does not fail, applies the nearest bound (0 or 15) to all three channels and
\* returns that bound.
C1_UniformClamps ==
    (last.op = "set_intensity" /\ Connected /\ last.args[1] \notin 0..15) =>
        LET bound == IF last.args[1] < 0 THEN 0 ELSE 15
            zoom  == sessions[digit.dev].zoom
        IN  /\ last.exc = "ok"
            /\ last.ret = bound
            /\ Red(zoom) = bound /\ Green(zoom) = bound /\ Blue(zoom) = bound

\* C2: after a successful connect() the capture session is open on the
\* descriptor's device path and the applied and mirrored configuration is
\* 320x240 at 60 fps with all three illumination channels at 15, whatever the
\* path and the revision; info() reports these values.
C2_ConnectDefaults ==
    (last.op = "connect" /\ last.exc = "ok") =>
        LET cap  == sessions[digit.dev]
            desc == find_digit(udev, digit.serial)
            max  == 15 * 256 + 15 * 16 + 15
        IN  /\ cap.status = "open" /\ cap.path = desc.dev_name
            /\ cap.width = 320 /\ cap.height = 240 /\ cap.fps = 60
            /\ Red(cap.zoom) = 15 /\ Green(cap.zoom) = 15 /\ Blue(cap.zoom) = 15
            /\ digit.resolution = [width |-> 320, height |-> 240]
            /\ digit.fps = 60
            /\ digit.intensity = max
            /\ info(Now).connected
            /\ info(Now).resolution = [width |-> 320, height |-> 240]
            /\ info(Now).fps = 60
            /\ info(Now).intensity = max

\* C3: set_intensity_rgb(r, g, b) raises ValueError exactly when at least one of
\* r, g, b is outside 0..15, whichever position it is in; with all three inside
\* 0..15 it raises no ValueError.
C3_RgbValidation ==
    last.op = "set_intensity_rgb" =>
        (last.exc = "ValueError" <=> \E i \in 1..3 : last.args[i] < 0 \/ last.args[i] > 15)

C3_Witness ==
    /\ last.op = "set_intensity_rgb"
    /\ last.args = <<15, 0, 16>>
    /\ last.exc = "ValueError"

\* C4: for r, g, b in 0..15 the value set_intensity_rgb(r, g, b) returns and
\* writes decodes back to (r, g, b) with red in bits 8..11, green in bits 4..7
\* and blue in bits 0..3 (so two triples with one composite are one triple), and
\* (15, 0, 0) gives 15 * 256.
C4_RoundTrip ==
    (last.op = "set_intensity_rgb" /\ last.exc = "ok") =>
        /\ \A i \in 1..3 : last.args[i] \in 0..15
        /\ Red(last.ret) = last.args[1]
        /\ Green(last.ret) = last.args[2]
        /\ Blue(last.ret) = last.args[3]
        /\ last.ret \in 0..4095
        /\ Connected => sessions[digit.dev].zoom = last.ret
        /\ digit.intensity = last.ret
        /\ last.args = <<15, 0, 0>> => last.ret = 15 * 256

C4_Witness ==
    /\ last.op = "set_intensity_rgb"
    /\ last.args = <<1, 2, 3>>
    /\ last.exc = "ok"
    /\ last.ret = 256 + 32 + 3
    /\ sessions[digit.dev].zoom = last.ret

\* The attached DIGITs with serial s.
WithSerial(s) ==
    {i \in DOMAIN udev : udev[i].ID_MODEL = "DIGIT" /\ udev[i].ID_SERIAL_SHORT = s}

\* C5: with unique serials attached, find_digit(s) returns the descriptor whose
\* serial is s and None when there is none; Digit(s) succeeds, holding that
\* descriptor's dev_name, manufacturer, model, revision and serial, exactly when
\* find_digit(s) finds one, and raises otherwise.
C5_FindDevice ==
    /\ \A s \in Queries \ {None} :
          IF WithSerial(s) = {} THEN find_digit(udev, s) = NotFound
          ELSE \E i \in WithSerial(s) : find_digit(udev, s) = _parse(udev[i])
    /\ (last.op = "__init__" /\ digit.serial # None) =>
          IF WithSerial(digit.serial) = {}
          THEN constructed = "raised" /\ last.exc = "Exception"
          ELSE /\ constructed = "yes" /\ last.exc = "ok"
               /\ \E i \in WithSerial(digit.serial) :
                     /\ digit.dev_name = udev[i].DEVNAME
                     /\ digit.manufacturer = udev[i].ID_VENDOR
                     /\ digit.model = udev[i].ID_MODEL
                     /\ digit.revision = int(udev[i].ID_REVISION)
                     /\ digit.serial = udev[i].ID_SERIAL_SHORT

C5_Witness ==
    /\ last.op = "__init__"
    /\ constructed = "yes"
    /\ Len(udev) = 2
    /\ udev[1].ID_MODEL = "DIGIT"
    /\ udev[2].ID_MODEL = "DIGIT"
    /\ digit.serial = udev[2].ID_SERIAL_SHORT
    /\ digit.dev_name = udev[2].DEVNAME

\* C6: a call of connect, set_resolution, set_fps, set_intensity,
\* set_intensity_rgb, get_frame or disconnect that ends in an exception leaves
\* the capture session reference and the mirrored resolution, fps and intensity
\* as they were before the call.
C6_FailureChangesNothing ==
    [][(/\ last'.op \in {"connect", "set_resolution", "set_fps", "set_intensity",
                         "set_intensity_rgb", "get_frame", "disconnect"}
        /\ last'.exc # "ok")
          => /\ digit'.dev = digit.dev
             /\ digit'.resolution = digit.resolution
             /\ digit'.fps = digit.fps
             /\ digit'.intensity = digit.intensity]_vars

\* C7: disconnect() on a Digit that was never connected completes without an
\* exception.
C7_DisconnectNeverConnected ==
    (last.op = "disconnect" /\ sessions = <<>>) => last.exc = "ok"

\* C8, as claimed: once a disconnect() has closed the session of a Connected
\* Digit, that Digit is never Connected again.
C8_DisconnectedIsTerminal ==
    (\E i \in DOMAIN sessions :
        sessions[i].status = "released" /\ sessions[i].releases > 0) => ~Connected

\* C8, amended: a completed disconnect() leaves the Digit not Connected, and a
\* Digit that is not Connected becomes Connected only by a connect() that
\* succeeds, on a capture session created by that call.
C8_OnlyConnectReconnects ==
    [][/\ (last'.op = "disconnect" /\ last'.exc = "ok") => ~Connected'
       /\ (~Connected /\ Connected') =>
             /\ last'.op = "connect" /\ last'.exc = "ok"
             /\ digit'.dev = Len(sessions) + 1
             /\ Len(sessions') = Len(sessions) + 1]_vars

\* Connected again after a disconnect() that closed an earlier session.
C8_Witness ==
    /\ Connected
    /\ last.op = "connect"
    /\ \E i \in 1..(digit.dev - 1) :
          sessions[i].status = "released" /\ sessions[i].releases > 0

\* C9: every capture session the Digit opened is the one it holds or is closed,
\* and none had release() called on it more than once.
C9_SessionsReleasedOnce ==
    \A i \in DOMAIN sessions :
        sessions[i].status # "failed" =>
            /\ sessions[i].status = "open" => i = digit.dev
            /\ sessions[i].releases <= 1

====
